---- MODULE Spec2Model ----
(***************************************************************************)
(* Model of app.py: the Flask application's session / JWT authentication   *)
(* lifecycle, the user store and the action / analysis record store.       *)
(*                                                                         *)
(* One clock tick stands for 12 hours, so the 24 hour token lifetime of    *)
(* app.config['JWT_ACCESS_TOKEN_EXPIRES'] is 2 ticks.                      *)
(***************************************************************************)
EXTENDS Integers, Sequences, FiniteSets, TLC

VARIABLES
    users,            \* users_collection: sequence of user documents in insertion order
    actions,          \* actions_collection
    analyses,         \* analyses_collection
    session,          \* per client: the dict carried by Flask's signed session cookie
    cookie,           \* per client: the browser's cookie jar for the name 'token'
    leaked,           \* a copy of an issued token kept outside any cookie jar
    now,              \* datetime.utcnow(), in ticks
    session_cleared,  \* hasattr(app, 'session_cleared')
    unique_index,     \* whether the unique indexes of __main__ exist
    pending,          \* per client: a signup request between two database operations
    hist,             \* per client: "logged_out" since its last /logout until it logs
                      \* in again; "stale" while it has sent nothing since a restart
                      \* before which its session was logged in; "" otherwise
    resp,             \* the last request handled (client, route, method, form), its
                      \* response, and hops: how many redirects in a row the
                      \* client followed to get to it
    client,           \* whether startup left a MongoClient in client (FALSE: None)
    db_up             \* whether the database answers a ping now

vars == <<users, actions, analyses, session, cookie, leaked, now,
          session_cleared, unique_index, pending, hist, resp, client, db_up>>

(***************************************************************************)
(* Bounds of the model                                                     *)
(***************************************************************************)
MaxUsers == 2
MaxRecords == 2
MaxAnalyses == 1
MaxTime == 2
MaxHops == 4

Clients == {"c1", "c2"}
Solo == {"c1"}
Emails == {"a@x.com", "b@x.com"}
Usernames == {"alice", "bob"}
Passwords == {"secret1", "short"}
Limits == {-1, 0, 1}

(***************************************************************************)
(* Program constants                                                       *)
(***************************************************************************)
JWT_ACCESS_TOKEN_EXPIRES == 2
MinPasswordLen == 6
DefaultActionsLimit == 10
DefaultAnalysesLimit == 5
JWT_SECRET_KEY == "jwt-secret-key-change-in-production"

(***************************************************************************)
(* Dictionaries (session, request.cookies, request.headers)                *)
(***************************************************************************)
EmptyDict == [k \in {} |-> 0]

Put(d, key, v) == [k \in DOMAIN d \cup {key} |-> IF k = key THEN v ELSE d[k]]

Pop(d, key) == [k \in DOMAIN d \ {key} |-> d[k]]

(***************************************************************************)
(* Identifiers: an ObjectId and its str() are different values, and a      *)
(* query by one never matches a document that stores the other.            *)
(***************************************************************************)
NewObjectId(n) == [oid |-> n]

\* str(): the hex string of an ObjectId, and a string unchanged
Str(id) == IF "oid" \in DOMAIN id THEN [hex |-> id.oid] ELSE id

ObjectId(s) == [oid |-> s.hex]

\* action['_id'] = str(action['_id']); action['user_id'] = str(action['user_id'])
\* (timestamps stay ticks: isoformat keeps their order)
stringified(doc) == [doc EXCEPT !._id = Str(@), !.user_id = Str(@)]

(***************************************************************************)
(* bcrypt                                                                  *)
(***************************************************************************)
\* mutant: the password is stored as it was typed
generate_password_hash_plain(pw) == pw

\* mutant: every password matches
check_password_hash_any(h, pw) == TRUE

\* bcrypt.generate_password_hash(password).decode('utf-8'): a string that
\* starts with the bcrypt prefix and from which only the same password verifies
generate_password_hash(pw) == "$2b$12$" \o pw

check_password_hash(h, pw) == h = "$2b$12$" \o pw

(***************************************************************************)
(* JWT: a token is its payload plus the key that signed it.                *)
(***************************************************************************)
jwt_encode(payload, key) == [user_id |-> payload.user_id, exp |-> payload.exp,
                             iat |-> payload.iat, key |-> key]

\* mutant: the lifetime is not added to the expiry
generate_token_no_lifetime(user_id) ==
    jwt_encode([user_id |-> Str(user_id), exp |-> now, iat |-> now], JWT_SECRET_KEY)

generate_token(user_id) ==
    jwt_encode([user_id |-> Str(user_id),
                exp |-> now + JWT_ACCESS_TOKEN_EXPIRES,
                iat |-> now], JWT_SECRET_KEY)

\* mutant: a token is still accepted at the instant of its expiry
jwt_decode_late(token, key, t) ==
    IF token.key /= key THEN <<>>
    ELSE IF token.exp < t THEN <<>>
    ELSE <<[user_id |-> token.user_id, exp |-> token.exp, iat |-> token.iat]>>

\* mutant: a token is refused once no cookie jar holds it (revoked at logout)
jwt_decode_revoked(token, key, t) ==
    IF token.key /= key THEN <<>>
    ELSE IF token.exp <= t THEN <<>>
    ELSE IF \A c \in Clients : "token" \notin DOMAIN cookie[c] \/ cookie[c]["token"] /= token
    THEN <<>>
    ELSE <<[user_id |-> token.user_id, exp |-> token.exp, iat |-> token.iat]>>

\* jwt.decode(token, key, algorithms=['HS256']) at time t: <<payload>>, or <<>>
\* when it raises (bad signature, or exp <= t)
jwt_decode(token, key, t) ==
    IF token.key /= key THEN <<>>
    ELSE IF token.exp <= t THEN <<>>
    ELSE <<[user_id |-> token.user_id, exp |-> token.exp, iat |-> token.iat]>>

\* a token signed with another key, claiming user 1 and a far expiry
ForgedToken == [user_id |-> Str(NewObjectId(1)),
                exp |-> MaxTime + JWT_ACCESS_TOKEN_EXPIRES + 1,
                iat |-> 0, key |-> "forged"]

\* the value '' that logout stores with expires=0
EmptyToken == [user_id |-> Str(NewObjectId(0)), exp |-> 0, iat |-> 0, key |-> ""]

(***************************************************************************)
(* The document store: find_one, find().sort('timestamp', -1).limit(n)      *)
(***************************************************************************)
\* collection.find_one({field: v}): <<doc>> for the first match, <<>> for None
find_one(coll, field, v) ==
    LET hits == {i \in 1..Len(coll) : coll[i][field] = v}
    IN  IF hits = {} THEN <<>>
        ELSE <<coll[CHOOSE i \in hits : \A j \in hits : i <= j]>>

\* mutant: the query has no filter
Matching_unfiltered(coll, uid) == 1..Len(coll)

\* the documents of coll that find({'user_id': uid}) matches
Matching(coll, uid) == {i \in 1..Len(coll) : coll[i].user_id = uid}

\* cursor.limit(n): 0 is no limit, a negative n is treated as its absolute value
Limited(seq, n) ==
    LET m == IF n < 0 THEN 0 - n ELSE n
    IN  IF n = 0 \/ m >= Len(seq) THEN seq ELSE SubSeq(seq, 1, m)

\* every result list find({'user_id': uid}).sort('timestamp', -1).limit(n) may
\* return: documents with equal timestamps come in either order
find_sort_limit(coll, uid, n) ==
    LET hits == Matching(coll, uid)
        k == Cardinality(hits)
        orders == {f \in [1..k -> hits] :
                     /\ \A a, b \in 1..k : a /= b => f[a] /= f[b]
                     /\ \A a, b \in 1..k :
                          a < b => coll[f[a]].timestamp >= coll[f[b]].timestamp}
    IN  {Limited([a \in 1..k |-> coll[f[a]]], n) : f \in orders}

\* users_collection.insert_one(user_data): the new collection, or <<>> when a
\* unique index rejects the document (DuplicateKeyError)
insert_user(coll, doc) ==
    IF /\ unique_index
       /\ \E i \in 1..Len(coll) :
             coll[i].email = doc.email \/ coll[i].username = doc.username
    THEN <<>>
    ELSE <<Append(coll, [doc EXCEPT !._id = NewObjectId(Len(coll) + 1)])>>

(***************************************************************************)
(* Requests and responses                                                  *)
(***************************************************************************)
NoForm == [username |-> "", email |-> "", password |-> "", confirm_password |-> ""]

Request(c, route, method, aj, hdrs, form, json, limit) ==
    [client |-> c, route |-> route, method |-> method, accept_json |-> aj,
     cookies |-> cookie[c], headers |-> hdrs, form |-> form, json |-> json,
     limit |-> limit]

\* request.url of each endpoint, and url_for
url_for(endpoint) ==
    CASE endpoint = "index" -> "/"
      [] endpoint = "login" -> "/login"
      [] endpoint = "signup" -> "/signup"
      [] endpoint = "logout" -> "/logout"
      [] endpoint = "clear_session" -> "/clear-session"
      [] endpoint = "gait_analysis" -> "/gait_analysis"
      [] endpoint = "dashboard" -> "/dashboard"
      [] endpoint = "settings" -> "/settings"
      [] endpoint = "api_get_user" -> "/api/user"
      [] endpoint = "api_actions" -> "/api/actions"
      [] endpoint = "api_analyses" -> "/api/analyses"
      [] OTHER -> "/health"

Response(status, location, template, message) ==
    [status |-> status, location |-> location, template |-> template,
     message |-> message, handler |-> FALSE, user |-> <<>>,
     body |-> <<>>, body2 |-> <<>>, set_cookie |-> <<>>]

redirect(endpoint, message) == Response(302, url_for(endpoint), "", message)

redirect_url(url, message) == Response(302, url, "", message)

render_template(template, message) == Response(200, "", template, message)

jsonify(status, message) == Response(status, "", "", message)

\* response.set_cookie('token', value, ...) as the browser applies it: an
\* empty value with expires=0 removes the cookie
ApplySetCookie(jar, set_cookie) ==
    IF set_cookie = <<>> THEN jar
    ELSE IF set_cookie[1] = EmptyToken THEN Pop(jar, "token")
    ELSE Put(jar, "token", set_cookie[1])

(***************************************************************************)
(* before_request hook and the two decorators                              *)
(***************************************************************************)
\* mutant: only the redirect target is dropped
session_clear_next_url(s) == Pop(s, "next_url")

\* session.clear()
session_clear(s) == EmptyDict

\* the session the view function sees, after clear_session_on_start
clear_session_on_start(c) ==
    IF ~session_cleared THEN session_clear(session[c]) ELSE session[c]

\* mutant: login and signup do not look at the session
user_id_in_session_never(s) == FALSE

\* 'user_id' in session: the first statement of login() and of signup()
user_id_in_session(s) == "user_id" \in DOMAIN s

\* mutant: login_required turns every request away
login_required_never(s) == FALSE

\* login_required: whether the wrapped view runs
login_required(s) == "user_id" \in DOMAIN s

\* mutant: the requested URL is not kept
login_rejected_no_next_url(req, s) ==
    [session |-> s,
     resp |-> redirect("login", "Please log in to access this page")]

\* the session and response of a request login_required turns away
login_rejected(req, s) ==
    [session |-> Put(s, "next_url", url_for(req.route)),
     resp |-> redirect("login", "Please log in to access this page")]

\* mutant: the Authorization header is read before the cookie
request_token_header_first(req) ==
    IF "Authorization" \in DOMAIN req.headers
       /\ req.headers["Authorization"].scheme = "Bearer"
    THEN <<req.headers["Authorization"].token>>
    ELSE IF "token" \in DOMAIN req.cookies THEN <<req.cookies["token"]>> ELSE <<>>

\* token = None / cookies.get('token') / the Bearer header: <<>> for None
request_token(req) ==
    LET t1 == IF "token" \in DOMAIN req.cookies
              THEN <<req.cookies["token"]>> ELSE <<>>
        falsy1 == t1 = <<>> \/ t1 = <<EmptyToken>>
    IN  IF falsy1 /\ "Authorization" \in DOMAIN req.headers
        THEN IF req.headers["Authorization"].scheme = "Bearer"
             THEN <<req.headers["Authorization"].token>>
             ELSE t1
        ELSE t1

\* mutant: a request without a token is admitted as the user of the session
token_required_session_fallback(req, s) ==
    LET token == request_token(req)
        data == IF token = <<>> \/ token = <<EmptyToken>> THEN <<>>
                ELSE jwt_decode(token[1], JWT_SECRET_KEY, now)
        user_id == IF data /= <<>> THEN <<data[1].user_id>>
                   ELSE IF "user_id" \in DOMAIN s THEN <<s["user_id"]>> ELSE <<>>
        current_user == IF user_id = <<>> THEN <<>>
                        ELSE find_one(users, "_id", ObjectId(user_id[1]))
    IN  IF current_user = <<>>
        THEN [admit |-> FALSE, user |-> <<>>, session |-> s,
              resp |-> IF req.accept_json THEN jsonify(401, "Token is missing!")
                       ELSE redirect("login", "Please login to access this page")]
        ELSE [admit |-> TRUE, user |-> current_user, session |-> s,
              resp |-> jsonify(200, "")]

\* token_required: [admit, user, session, resp]
token_required(req, s) ==
    LET token == request_token(req)
    IN  IF token = <<>> \/ token = <<EmptyToken>>
        THEN [admit |-> FALSE, user |-> <<>>,
              session |-> Put(s, "next_url", url_for(req.route)),
              resp |-> IF req.accept_json
                       THEN jsonify(401, "Token is missing!")
                       ELSE redirect("login", "Please login to access this page")]
        ELSE LET data == jwt_decode(token[1], JWT_SECRET_KEY, now)
                 current_user ==
                     IF data = <<>> THEN <<>>
                     ELSE find_one(users, "_id", ObjectId(data[1].user_id))
             IN  IF current_user = <<>>
                 THEN [admit |-> FALSE, user |-> <<>>, session |-> s,
                       resp |-> IF req.accept_json
                                THEN jsonify(401, "Token is invalid!")
                                ELSE redirect("login",
                                         "Session expired. Please login again")]
                 ELSE [admit |-> TRUE, user |-> current_user, session |-> s,
                       resp |-> jsonify(200, "")]

\* A browser follows a 302 with a GET of its Location. A request is such a
\* follow when it is a GET, by the client of the last response, of the URL that
\* response redirected to; follows counts them in a row (the model stops
\* counting one past MaxHops).
follows(req) ==
    IF /\ resp.r.status = 302
       /\ resp.client = req.client
       /\ req.method = "GET"
       /\ resp.r.location = url_for(req.route)
    THEN IF resp.hops > MaxHops THEN resp.hops ELSE resp.hops + 1
    ELSE 0

\* the end of every request: the session cookie is saved, the browser applies
\* Set-Cookie, and the hook has set app.session_cleared
Respond(req, s, r) ==
    /\ session' = [session EXCEPT ![req.client] = s]
    /\ cookie' = [cookie EXCEPT ![req.client] = ApplySetCookie(@, r.set_cookie)]
    /\ session_cleared' = TRUE
    /\ hist' = [hist EXCEPT ![req.client] =
                   IF req.route = "logout" THEN "logged_out"
                   ELSE IF "user_id" \in DOMAIN s /\ r.set_cookie /= <<>> THEN ""
                   ELSE IF @ = "stale" THEN "" ELSE @]
    /\ resp' = [client |-> req.client, route |-> req.route, method |-> req.method,
                form |-> req.form, r |-> r, hops |-> follows(req)]

(***************************************************************************)
(* Initial state: the process has just started on an empty database        *)
(***************************************************************************)
NoResp ==
    [client |-> "c1", route |-> "none", method |-> "GET", form |-> NoForm,
     r |-> Response(0, "", "", ""), hops |-> 0]

\* everything but the indexes of the users collection
InitStore ==
    /\ users = <<>>
    /\ actions = <<>>
    /\ analyses = <<>>
    /\ session = [c \in Clients |-> EmptyDict]
    /\ cookie = [c \in Clients |-> EmptyDict]
    /\ leaked = <<>>
    /\ now = 0
    /\ session_cleared = FALSE
    /\ pending = [c \in Clients |-> <<>>]
    /\ hist = [c \in Clients |-> ""]
    /\ resp = NoResp

\* The application imported by a WSGI server: the __main__ block, which creates
\* the unique indexes, has not run. One whole request at a time never reaches
\* insert_one with a duplicate, so the indexes decide nothing here.
Init == InitStore /\ unique_index = FALSE /\ client = TRUE /\ db_up = TRUE

\* python app.py: create_index either succeeded or failed (its exception is
\* caught and printed); or the application was imported and no index exists
InitAnyIndex == InitStore /\ unique_index \in BOOLEAN /\ client = TRUE /\ db_up = TRUE

\* lines 23-53: the first MongoClient answered the ping; or it did not and the
\* fallback MongoClient was created, its server running or not; or creating the
\* fallback raised as well and client is None
InitAnyClient ==
    /\ InitStore
    /\ unique_index = FALSE
    /\ \/ client = TRUE /\ db_up \in BOOLEAN
       \/ client = FALSE /\ db_up = FALSE

(***************************************************************************)
(* What a client can send                                                  *)
(***************************************************************************)
Bearer(t) == Put(EmptyDict, "Authorization", [scheme |-> "Bearer", token |-> t])

\* the Authorization headers a client may send: none, a copied token, a forged one
Headers == {EmptyDict, Bearer(ForgedToken)} \cup {Bearer(leaked[i]) : i \in 1..Len(leaked)}

\* login forms: every email with every password, and each field left empty once
LoginForms ==
    {[NoForm EXCEPT !.email = e, !.password = p] : e \in Emails, p \in Passwords}
    \cup {[NoForm EXCEPT !.email = "a@x.com"], [NoForm EXCEPT !.password = "secret1"]}

Form(u, e, p, q) == [username |-> u, email |-> e, password |-> p, confirm_password |-> q]

\* signup forms: every username with every email and a good password, and one
\* form for each way validation can fail
SignupForms ==
    {Form(u, e, "secret1", "secret1") : u \in Usernames, e \in Emails}
    \cup {Form("", "a@x.com", "secret1", "secret1"), Form("alice", "", "secret1", "secret1"),
          Form("alice", "a@x.com", "", "secret1"), Form("alice", "a@x.com", "secret1", ""),
          Form("alice", "a@x.com", "secret1", "short"),
          Form("alice", "a@x.com", "short", "short")}

PageReq(c, route) == Request(c, route, "GET", FALSE, EmptyDict, NoForm, FALSE, <<>>)

(***************************************************************************)
(* GET /                                                                    *)
(***************************************************************************)
index(c) ==
    LET req == PageReq(c, "index")
        s == clear_session_on_start(c)
        token == IF "token" \in DOMAIN req.cookies THEN <<req.cookies["token"]>> ELSE <<>>
    IN  /\ pending[c] = <<>>
        /\ IF "user_id" \in DOMAIN s /\ token /= <<>> /\ token /= <<EmptyToken>>
           THEN IF jwt_decode(token[1], JWT_SECRET_KEY, now) /= <<>>
                THEN Respond(req, s, redirect("dashboard", ""))
                ELSE Respond(req, session_clear(s), render_template("index.html", ""))
           ELSE Respond(req, s, render_template("index.html", ""))
        /\ UNCHANGED <<client, db_up, users, actions, analyses, leaked, now, unique_index, pending>>

(***************************************************************************)
(* GET, POST /login                                                         *)
(***************************************************************************)
\* update_one({'_id': id}, {'$set': {'last_login': t}})
update_last_login(coll, id, t) ==
    [i \in 1..Len(coll) |->
        IF coll[i]._id = id /\ \A j \in 1..(i - 1) : coll[j]._id /= id
        THEN [coll[i] EXCEPT !.last_login = t] ELSE coll[i]]

\* the response that carries the token cookie
with_cookie(r, token) == [r EXCEPT !.set_cookie = <<token>>]

login_get(c) ==
    LET req == PageReq(c, "login")
        s == clear_session_on_start(c)
    IN  /\ pending[c] = <<>>
        /\ IF user_id_in_session(s)
           THEN Respond(req, s, redirect("dashboard", ""))
           ELSE Respond(req, s, render_template("login.html", ""))
        /\ UNCHANGED <<client, db_up, users, actions, analyses, leaked, now, unique_index, pending>>

login_post(c, form) ==
    LET req == Request(c, "login", "POST", FALSE, EmptyDict, form, FALSE, <<>>)
        s == clear_session_on_start(c)
        user == find_one(users, "email", form.email)
    IN  /\ pending[c] = <<>>
        /\ IF user_id_in_session(s)
           THEN /\ Respond(req, s, redirect("dashboard", ""))
                /\ users' = users
           ELSE IF form.email = "" \/ form.password = ""
           THEN /\ Respond(req, s, render_template("login.html", "Please fill all fields"))
                /\ users' = users
           ELSE IF user /= <<>> /\ check_password_hash(user[1].password, form.password)
           THEN LET s1 == Put(Put(s, "user_id", Str(user[1]._id)),
                              "username", user[1].username)
                    token == generate_token(user[1]._id)
                    next_url == IF "next_url" \in DOMAIN s1
                                THEN s1["next_url"] ELSE url_for("dashboard")
                IN  /\ users' = update_last_login(users, user[1]._id, now)
                    /\ Respond(req, Pop(s1, "next_url"),
                               with_cookie(redirect_url(next_url, "Login successful!"),
                                           token))
           ELSE /\ Respond(req, s, render_template("login.html",
                                                   "Invalid email or password"))
                /\ users' = users
        /\ UNCHANGED <<client, db_up, actions, analyses, leaked, now, unique_index, pending>>

(***************************************************************************)
(* GET, POST /signup                                                        *)
(***************************************************************************)
\* mutant: the length of the password is not checked
signup_validate_no_length(form) ==
    IF form.username = "" \/ form.email = "" \/ form.password = ""
       \/ form.confirm_password = ""
    THEN "Please fill all fields"
    ELSE IF form.password /= form.confirm_password THEN "Passwords do not match"
    ELSE ""

\* lines 228-239: the message of the validation that fails, "" when none does
signup_validate(form) ==
    IF form.username = "" \/ form.email = "" \/ form.password = ""
       \/ form.confirm_password = ""
    THEN "Please fill all fields"
    ELSE IF form.password /= form.confirm_password THEN "Passwords do not match"
    ELSE IF Len(form.password) < MinPasswordLen
    THEN "Password must be at least 6 characters"
    ELSE ""

\* mutant: the email lookup is missing
signup_duplicate_username_only(form) ==
    IF find_one(users, "username", form.username) /= <<>>
    THEN "Username already taken"
    ELSE ""

\* lines 241-249: the message of the existence check that fails, "" when none does
signup_duplicate(form) ==
    IF find_one(users, "email", form.email) /= <<>> THEN "Email already registered"
    ELSE IF find_one(users, "username", form.username) /= <<>>
    THEN "Username already taken"
    ELSE ""

user_data(form) ==
    [_id |-> NewObjectId(0), username |-> form.username, email |-> form.email,
     password |-> generate_password_hash(form.password), last_login |-> now]

\* lines 252-312: insert, session, token and response; the except branch
\* re-renders the form
signup_create(req, s) ==
    LET inserted == insert_user(users, user_data(req.form))
    IN  IF inserted = <<>>
        THEN /\ users' = users
             /\ Respond(req, s, render_template("signup.html",
                            "Error creating account. Please try again."))
        ELSE LET user_id == inserted[1][Len(inserted[1])]._id
                 s1 == Put(Put(s, "user_id", Str(user_id)), "username", req.form.username)
                 token == generate_token(user_id)
             IN  /\ users' = inserted[1]
                 /\ Respond(req, s1,
                      with_cookie(IF req.accept_json
                                  THEN jsonify(200, "Account created successfully")
                                  ELSE redirect("dashboard", "Account created successfully!"),
                                  token))

\* whether a signup POST gets as far as insert_one (the model caps the store)
signup_reaches_insert(form, s) ==
    /\ ~user_id_in_session(s)
    /\ signup_validate(form) = ""
    /\ signup_duplicate(form) = ""

signup_get(c) ==
    LET req == PageReq(c, "signup")
        s == clear_session_on_start(c)
    IN  /\ pending[c] = <<>>
        /\ IF user_id_in_session(s)
           THEN Respond(req, s, redirect("dashboard", ""))
           ELSE Respond(req, s, render_template("signup.html", ""))
        /\ UNCHANGED <<client, db_up, users, actions, analyses, leaked, now, unique_index, pending>>

\* the whole handler, run without another request in between
signup_post(c, form, aj) ==
    LET req == Request(c, "signup", "POST", aj, EmptyDict, form, FALSE, <<>>)
        s == clear_session_on_start(c)
    IN  /\ pending[c] = <<>>
        /\ signup_reaches_insert(form, s) => Len(users) < MaxUsers
        /\ IF user_id_in_session(s)
           THEN /\ Respond(req, s, redirect("dashboard", ""))
                /\ users' = users
           ELSE IF signup_validate(form) /= ""
           THEN /\ Respond(req, s, render_template("signup.html", signup_validate(form)))
                /\ users' = users
           ELSE IF signup_duplicate(form) /= ""
           THEN /\ Respond(req, s, render_template("signup.html", signup_duplicate(form)))
                /\ users' = users
           ELSE signup_create(req, s)
        /\ UNCHANGED <<client, db_up, actions, analyses, leaked, now, unique_index, pending>>

\* what may raise inside the try block of signup: insert_one before the
\* database applied the write; insert_one after it applied the write (the
\* reply is lost); set_cookie, given the None that generate_token returns when
\* jwt.encode raises
Faults == {"insert_one", "insert_one_applied", "generate_token"}

\* the try block when one of its steps raises: the except branch flashes the
\* error and the signup form is rendered, with whatever was done before
signup_create_failing(req, s, fault) ==
    LET inserted == insert_user(users, user_data(req.form))
        error == render_template("signup.html", "Error creating account. Please try again.")
    IN  IF inserted = <<>> \/ fault = "insert_one"
        THEN /\ users' = users
             /\ Respond(req, s, error)
        ELSE IF fault = "insert_one_applied"
        THEN /\ users' = inserted[1]
             /\ Respond(req, s, error)
        ELSE LET user_id == inserted[1][Len(inserted[1])]._id
                 s1 == Put(Put(s, "user_id", Str(user_id)), "username", req.form.username)
             IN  /\ users' = inserted[1]
                 /\ Respond(req, s1, error)

\* a signup POST that gets as far as the try block and fails in it
signup_post_failing(c, form, aj, fault) ==
    LET req == Request(c, "signup", "POST", aj, EmptyDict, form, FALSE, <<>>)
        s == clear_session_on_start(c)
    IN  /\ pending[c] = <<>>
        /\ signup_reaches_insert(form, s)
        /\ Len(users) < MaxUsers
        /\ signup_create_failing(req, s, fault)
        /\ UNCHANGED <<client, db_up, actions, analyses, leaked, now, unique_index, pending>>

(***************************************************************************)
(* GET /logout, GET /clear-session                                          *)
(***************************************************************************)
logout(c) ==
    /\ pending[c] = <<>>
    /\ Respond(PageReq(c, "logout"), session_clear(clear_session_on_start(c)),
               with_cookie(redirect("index", "You have been logged out"), EmptyToken))
    /\ UNCHANGED <<client, db_up, users, actions, analyses, leaked, now, unique_index, pending>>

clear_session(c) ==
    /\ pending[c] = <<>>
    /\ Respond(PageReq(c, "clear_session"), session_clear(clear_session_on_start(c)),
               with_cookie(redirect("index", "Session cleared"), EmptyToken))
    /\ UNCHANGED <<client, db_up, users, actions, analyses, leaked, now, unique_index, pending>>

(***************************************************************************)
(* Pages behind login_required                                              *)
(***************************************************************************)
ran(r) == [r EXCEPT !.handler = TRUE]

\* /gait_analysis, and every other page that only renders its template
gait_analysis(c) ==
    LET req == PageReq(c, "gait_analysis")
        s == clear_session_on_start(c)
    IN  /\ pending[c] = <<>>
        /\ IF login_required(s)
           THEN Respond(req, s, ran(render_template("gait_analysis.html", "")))
           ELSE Respond(req, login_rejected(req, s).session, login_rejected(req, s).resp)
        /\ UNCHANGED <<client, db_up, users, actions, analyses, leaked, now, unique_index, pending>>

\* the body of dashboard(): lines 394-423
dashboard_view(s) ==
    LET user_id == s["user_id"]
        user == find_one(users, "_id", ObjectId(user_id))
    IN  IF user = <<>>
        THEN {[session |-> session_clear(s),
               resp |-> ran(redirect("login", "User not found. Please log in again."))]}
        ELSE {[session |-> s,
               resp |-> [ran(render_template("dashboard.html", ""))
                           EXCEPT !.user = user,
                                  !.body = [i \in 1..Len(a) |-> stringified(a[i])],
                                  !.body2 = [i \in 1..Len(b) |-> stringified(b[i])]]] :
                a \in find_sort_limit(actions, user_id, DefaultActionsLimit),
                b \in find_sort_limit(analyses, user_id, DefaultAnalysesLimit)}

dashboard(c) ==
    LET req == PageReq(c, "dashboard")
        s == clear_session_on_start(c)
    IN  /\ pending[c] = <<>>
        /\ IF login_required(s)
           THEN \E out \in dashboard_view(s) : Respond(req, out.session, out.resp)
           ELSE Respond(req, login_rejected(req, s).session, login_rejected(req, s).resp)
        /\ UNCHANGED <<client, db_up, users, actions, analyses, leaked, now, unique_index, pending>>

settings(c) ==
    LET req == PageReq(c, "settings")
        s == clear_session_on_start(c)
        user == find_one(users, "_id", ObjectId(s["user_id"]))
    IN  /\ pending[c] = <<>>
        /\ IF login_required(s)
           THEN IF user = <<>>
                THEN Respond(req, session_clear(s),
                         ran(redirect("login", "User not found. Please log in again.")))
                ELSE Respond(req, s, [ran(render_template("settings.html", ""))
                                        EXCEPT !.user = user])
           ELSE Respond(req, login_rejected(req, s).session, login_rejected(req, s).resp)
        /\ UNCHANGED <<client, db_up, users, actions, analyses, leaked, now, unique_index, pending>>

(***************************************************************************)
(* The JSON API behind token_required                                       *)
(***************************************************************************)
ApiReq(c, route, method, aj, hdrs, json, limit) ==
    Request(c, route, method, aj, hdrs, NoForm, json, limit)

admitted(gate, r) == [ran(r) EXCEPT !.user = gate.user]

api_get_user(c, aj, hdrs) ==
    LET req == ApiReq(c, "api_get_user", "GET", aj, hdrs, FALSE, <<>>)
        gate == token_required(req, clear_session_on_start(c))
    IN  /\ pending[c] = <<>>
        /\ IF gate.admit
           THEN Respond(req, gate.session, admitted(gate, jsonify(200, "")))
           ELSE Respond(req, gate.session, gate.resp)
        /\ UNCHANGED <<client, db_up, users, actions, analyses, leaked, now, unique_index, pending>>

\* int(request.args.get('limit', default))
limit_arg(req, default) == IF req.limit = <<>> THEN default ELSE req.limit[1]

\* the GET branch of api_actions / api_analyses: the JSON lists it may return
records_get(coll, current_user, limit) ==
    {[jsonify(200, "") EXCEPT !.body = [i \in 1..Len(out) |-> stringified(out[i])]] :
        out \in find_sort_limit(coll, current_user._id, limit)}

\* the document the POST branch inserts
new_record(coll, current_user) ==
    [_id |-> NewObjectId(Len(coll) + 1), user_id |-> current_user._id,
     timestamp |-> now]

api_actions_get(c, aj, hdrs, limit) ==
    LET req == ApiReq(c, "api_actions", "GET", aj, hdrs, FALSE, limit)
        gate == token_required(req, clear_session_on_start(c))
    IN  /\ pending[c] = <<>>
        /\ IF gate.admit
           THEN \E r \in records_get(actions, gate.user[1],
                                     limit_arg(req, DefaultActionsLimit)) :
                    Respond(req, gate.session, admitted(gate, r))
           ELSE Respond(req, gate.session, gate.resp)
        /\ UNCHANGED <<client, db_up, users, actions, analyses, leaked, now, unique_index, pending>>

api_actions_post(c, aj, hdrs, json) ==
    LET req == ApiReq(c, "api_actions", "POST", aj, hdrs, json, <<>>)
        gate == token_required(req, clear_session_on_start(c))
    IN  /\ pending[c] = <<>>
        /\ (gate.admit /\ json) => Len(actions) < MaxRecords
        /\ IF ~gate.admit
           THEN /\ Respond(req, gate.session, gate.resp)
                /\ actions' = actions
           ELSE IF ~json
           THEN /\ Respond(req, gate.session, admitted(gate, jsonify(400, "No data provided")))
                /\ actions' = actions
           ELSE /\ actions' = Append(actions, new_record(actions, gate.user[1]))
                /\ Respond(req, gate.session,
                           [admitted(gate, jsonify(201, "Action recorded"))
                              EXCEPT !.body = <<Str(new_record(actions, gate.user[1])._id)>>])
        /\ UNCHANGED <<client, db_up, users, analyses, leaked, now, unique_index, pending>>

api_analyses_get(c, aj, hdrs, limit) ==
    LET req == ApiReq(c, "api_analyses", "GET", aj, hdrs, FALSE, limit)
        gate == token_required(req, clear_session_on_start(c))
    IN  /\ pending[c] = <<>>
        /\ IF gate.admit
           THEN \E r \in records_get(analyses, gate.user[1],
                                     limit_arg(req, DefaultAnalysesLimit)) :
                    Respond(req, gate.session, admitted(gate, r))
           ELSE Respond(req, gate.session, gate.resp)
        /\ UNCHANGED <<client, db_up, users, actions, analyses, leaked, now, unique_index, pending>>

api_analyses_post(c, aj, hdrs, json) ==
    LET req == ApiReq(c, "api_analyses", "POST", aj, hdrs, json, <<>>)
        gate == token_required(req, clear_session_on_start(c))
    IN  /\ pending[c] = <<>>
        /\ (gate.admit /\ json) => Len(analyses) < MaxAnalyses
        /\ IF ~gate.admit
           THEN /\ Respond(req, gate.session, gate.resp)
                /\ analyses' = analyses
           ELSE IF ~json
           THEN /\ Respond(req, gate.session, admitted(gate, jsonify(400, "No data provided")))
                /\ analyses' = analyses
           ELSE /\ analyses' = Append(analyses, new_record(analyses, gate.user[1]))
                /\ Respond(req, gate.session,
                           [admitted(gate, jsonify(201, "Analysis saved"))
                              EXCEPT !.body = <<Str(new_record(analyses, gate.user[1])._id)>>])
        /\ UNCHANGED <<client, db_up, users, actions, leaked, now, unique_index, pending>>

(***************************************************************************)
(* The environment: the clock, the process, and what clients do with the    *)
(* token they were given                                                    *)
(***************************************************************************)
Tick ==
    /\ now < MaxTime
    /\ now' = now + 1
    /\ UNCHANGED <<client, db_up, users, actions, analyses, session, cookie, leaked,
                   session_cleared, unique_index, pending, hist, resp>>

\* The process starts again: app has no session_cleared attribute. With
\* SECRET_KEY in the environment app.secret_key is the same key as before; without
\* it the key is a fresh os.urandom(24) and no session cookie signed before
\* verifies any more.
Restart ==
    /\ \A c \in Clients : pending[c] = <<>>
    /\ session_cleared
    /\ session_cleared' = FALSE
    /\ \E same_key \in BOOLEAN :
          session' = IF same_key THEN session ELSE [c \in Clients |-> EmptyDict]
    /\ hist' = [c \in Clients |->
                  IF "user_id" \in DOMAIN session[c] THEN "stale" ELSE hist[c]]
    /\ UNCHANGED <<client, db_up, users, actions, analyses, cookie, leaked, now, unique_index, pending, resp>>

\* somebody keeps a copy of the token a client was given
CopyToken(c) ==
    /\ "token" \in DOMAIN cookie[c]
    /\ cookie[c]["token"].key = JWT_SECRET_KEY
    /\ leaked' = <<cookie[c]["token"]>>
    /\ UNCHANGED <<client, db_up, users, actions, analyses, session, cookie, now, session_cleared,
                   unique_index, pending, hist, resp>>

\* a client sends a token cookie the server never issued
Tamper(c) ==
    /\ cookie' = [cookie EXCEPT ![c] = Put(@, "token", ForgedToken)]
    /\ UNCHANGED <<client, db_up, users, actions, analyses, session, leaked, now, session_cleared,
                   unique_index, pending, hist, resp>>

\* a client sends the token cookie with an empty value
BlankCookie(c) ==
    /\ cookie' = [cookie EXCEPT ![c] = Put(@, "token", EmptyToken)]
    /\ UNCHANGED <<client, db_up, users, actions, analyses, session, leaked, now, session_cleared,
                   unique_index, pending, hist, resp>>

\* max_age=24*60*60: the browser drops the token cookie 24 hours after it was set
CookieExpires(c) ==
    /\ "token" \in DOMAIN cookie[c]
    /\ cookie[c]["token"].key = JWT_SECRET_KEY
    /\ now >= cookie[c]["token"].iat + JWT_ACCESS_TOKEN_EXPIRES
    /\ cookie' = [cookie EXCEPT ![c] = Pop(@, "token")]
    /\ UNCHANGED <<client, db_up, users, actions, analyses, session, leaked, now, session_cleared,
                   unique_index, pending, hist, resp>>

(***************************************************************************)
(* The application, one whole request at a time                             *)
(***************************************************************************)
\* pages and forms gated by the session
SessionNext ==
    \/ \E c \in Solo : index(c)
    \/ \E c \in Clients : login_get(c)
    \/ \E c \in Solo, form \in LoginForms : login_post(c, form)
    \/ \E c \in Solo : signup_get(c)
    \/ \E c \in Solo, form \in SignupForms, aj \in BOOLEAN : signup_post(c, form, aj)
    \/ \E c \in Solo : logout(c)
    \/ \E c \in Solo : clear_session(c)
    \/ \E c \in Solo : gait_analysis(c)
    \/ \E c \in Solo : dashboard(c)
    \/ \E c \in Solo : settings(c)
    \/ \E c \in Solo : Tamper(c)
    \/ \E c \in Solo : CookieExpires(c)
    \/ Tick
    \/ Restart

Spec == Init /\ [][SessionNext]_vars

(***************************************************************************)
(* POST /signup, one database operation at a time: requests of different    *)
(* clients interleave between find_one, find_one and insert_one             *)
(***************************************************************************)
\* up to find_one({'email': email})
signup_lookup_email(c, form, aj) ==
    LET req == Request(c, "signup", "POST", aj, EmptyDict, form, FALSE, <<>>)
        s == clear_session_on_start(c)
    IN  /\ pending[c] = <<>>
        /\ IF user_id_in_session(s)
           THEN /\ Respond(req, s, redirect("dashboard", ""))
                /\ pending' = pending
           ELSE IF signup_validate(form) /= ""
           THEN /\ Respond(req, s, render_template("signup.html", signup_validate(form)))
                /\ pending' = pending
           ELSE IF find_one(users, "email", form.email) /= <<>>
           THEN /\ Respond(req, s, render_template("signup.html",
                                                   "Email already registered"))
                /\ pending' = pending
           ELSE /\ pending' = [pending EXCEPT ![c] =
                                 <<[req |-> req, session |-> s, at |-> "username"]>>]
                /\ session_cleared' = TRUE
                /\ UNCHANGED <<client, db_up, session, cookie, hist, resp>>
        /\ UNCHANGED <<client, db_up, users, actions, analyses, leaked, now, unique_index>>

\* find_one({'username': username})
signup_lookup_username(c) ==
    /\ pending[c] /= <<>>
    /\ pending[c][1].at = "username"
    /\ IF find_one(users, "username", pending[c][1].req.form.username) /= <<>>
       THEN /\ Respond(pending[c][1].req, pending[c][1].session,
                       render_template("signup.html", "Username already taken"))
            /\ pending' = [pending EXCEPT ![c] = <<>>]
       ELSE /\ pending' = [pending EXCEPT ![c] = <<[@[1] EXCEPT !.at = "insert"]>>]
            /\ UNCHANGED <<client, db_up, session, cookie, session_cleared, hist, resp>>
    /\ UNCHANGED <<client, db_up, users, actions, analyses, leaked, now, unique_index>>

\* insert_one and the rest of the try block
signup_insert(c) ==
    /\ pending[c] /= <<>>
    /\ pending[c][1].at = "insert"
    /\ Len(users) < MaxUsers
    /\ signup_create(pending[c][1].req, pending[c][1].session)
    /\ pending' = [pending EXCEPT ![c] = <<>>]
    /\ UNCHANGED <<client, db_up, actions, analyses, leaked, now, unique_index>>

SignupNext ==
    \/ \E c \in Clients, form \in SignupForms, aj \in BOOLEAN :
          signup_lookup_email(c, form, aj)
    \/ \E c \in Clients : signup_lookup_username(c)
    \/ \E c \in Clients : signup_insert(c)
    \/ \E c \in Clients : logout(c)

SpecSignup == InitAnyIndex /\ [][SignupNext]_vars

\* signup forms that pass validation
GoodForms == {f \in SignupForms : signup_validate(f) = ""}

\* tokens: the requests that issue them, an endpoint behind token_required,
\* and what happens to a token outside the application
ApiNext ==
    \/ \E c \in Solo, form \in LoginForms : login_post(c, form)
    \/ \E c \in Solo, form \in GoodForms, aj \in BOOLEAN : signup_post(c, form, aj)
    \/ \E c \in Solo : logout(c)
    \/ \E c \in Solo : clear_session(c)
    \/ \E c \in Solo, aj \in BOOLEAN, h \in Headers : api_get_user(c, aj, h)
    \/ \E c \in Solo, aj \in BOOLEAN, h \in Headers : api_actions_get(c, aj, h, <<>>)
    \/ \E c \in Solo, aj \in BOOLEAN, h \in Headers : api_analyses_get(c, aj, h, <<>>)
    \/ \E c \in Solo : CopyToken(c)
    \/ \E c \in Solo : CookieExpires(c)
    \/ Tick

SpecApi == Init /\ [][ApiNext]_vars

\* two people who sign up with their own email and username
Roster == {Form("alice", "a@x.com", "secret1", "secret1"),
           Form("bob", "b@x.com", "secret1", "secret1")}

\* the record store: one browser in which one person after the other signs up,
\* records actions and analyses and lists them
RecordsNext ==
    \/ \E c \in Solo, form \in Roster : signup_post(c, form, FALSE)
    \/ \E c \in Solo : logout(c)
    \/ \E c \in Solo, aj \in BOOLEAN, h \in {EmptyDict} : api_get_user(c, aj, h)
    \/ \E c \in Solo, aj \in BOOLEAN, h \in {EmptyDict}, n \in Limits :
          api_actions_get(c, aj, h, <<n>>)
    \/ \E c \in Solo, aj \in BOOLEAN, h \in {EmptyDict} : api_actions_get(c, aj, h, <<>>)
    \/ \E c \in Solo, aj \in BOOLEAN, h \in {EmptyDict}, j \in BOOLEAN :
          api_actions_post(c, aj, h, j)
    \/ \E c \in Solo, aj \in BOOLEAN, h \in {EmptyDict}, n \in Limits :
          api_analyses_get(c, aj, h, <<n>>)
    \/ \E c \in Solo, aj \in BOOLEAN, h \in {EmptyDict} : api_analyses_get(c, aj, h, <<>>)
    \/ \E c \in Solo, aj \in BOOLEAN, h \in {EmptyDict}, j \in BOOLEAN :
          api_analyses_post(c, aj, h, j)
    \/ \E c \in Solo : CookieExpires(c)
    \/ Tick

SpecRecords == Init /\ [][RecordsNext]_vars

\* two accounts, each with its own password
Accounts == {Form("alice", "a@x.com", "secret1", "secret1"),
             Form("bob", "b@x.com", "hunter22", "hunter22")}

\* the password the account with this email was created with
PlainOf(email) == (CHOOSE f \in Accounts : f.email = email).password

\* login forms: every email with the password of each account and one of
\* neither, and each field left empty once
CredLoginForms ==
    {[NoForm EXCEPT !.email = e, !.password = p] :
        e \in Emails, p \in {"secret1", "hunter22", "short"}}
    \cup {[NoForm EXCEPT !.email = "a@x.com"], [NoForm EXCEPT !.password = "secret1"]}

(***************************************************************************)
(* The startup hook, one statement at a time: requests of different clients *)
(* interleave between the test of app.session_cleared and its assignment    *)
(***************************************************************************)
\* mutant: the test of the flag always succeeds
session_cleared_unset_always == TRUE

\* not hasattr(app, 'session_cleared')
session_cleared_unset == ~session_cleared

\* a GET /gait_analysis arrives with its session and the hook tests the flag
clear_session_on_start_test(c) ==
    /\ pending[c] = <<>>
    /\ pending' = [pending EXCEPT ![c] =
                      <<[req |-> PageReq(c, "gait_analysis"), session |-> session[c],
                         at |-> IF session_cleared_unset THEN "clear" ELSE "view"]>>]
    /\ UNCHANGED <<client, db_up, users, actions, analyses, session, cookie, leaked, now,
                   session_cleared, unique_index, hist, resp>>

\* session.clear(); app.session_cleared = True
clear_session_on_start_clear(c) ==
    /\ pending[c] /= <<>>
    /\ pending[c][1].at = "clear"
    /\ pending' = [pending EXCEPT ![c] =
                      <<[@[1] EXCEPT !.session = session_clear(@), !.at = "view"]>>]
    /\ session_cleared' = TRUE
    /\ UNCHANGED <<client, db_up, users, actions, analyses, session, cookie, leaked, now,
                   unique_index, hist, resp>>

\* login_required and the view, then the response with the session it saves
gait_analysis_view(c) ==
    /\ pending[c] /= <<>>
    /\ pending[c][1].at = "view"
    /\ LET req == pending[c][1].req
           s == pending[c][1].session
       IN  IF login_required(s)
           THEN Respond(req, s, ran(render_template("gait_analysis.html", "")))
           ELSE Respond(req, login_rejected(req, s).session, login_rejected(req, s).resp)
    /\ pending' = [pending EXCEPT ![c] = <<>>]
    /\ UNCHANGED <<client, db_up, users, actions, analyses, leaked, now, unique_index>>

StartupNext ==
    \/ \E c \in Clients : clear_session_on_start_test(c)
    \/ \E c \in Clients : clear_session_on_start_clear(c)
    \/ \E c \in Clients : gait_analysis_view(c)
    \/ \E c \in Clients, form \in Accounts : signup_post(c, form, FALSE)
    \/ \E c \in Clients : logout(c)
    \/ Restart

SpecStartup == Init /\ [][StartupNext]_vars

(***************************************************************************)
(* GET /health                                                              *)
(***************************************************************************)
health(c) ==
    LET req == PageReq(c, "health")
        s == clear_session_on_start(c)
    IN  /\ pending[c] = <<>>
        /\ IF client
           THEN IF db_up
                THEN Respond(req, s, ran(jsonify(200, "connected")))
                ELSE Respond(req, s, ran(jsonify(500, "disconnected")))
           ELSE Respond(req, s, ran(jsonify(200, "disconnected")))
        /\ UNCHANGED <<client, db_up, users, actions, analyses, leaked, now,
                       unique_index, pending>>

\* the database server stops or starts answering
DbChanges ==
    /\ client
    /\ db_up' = ~db_up
    /\ UNCHANGED <<client, users, actions, analyses, session, cookie, leaked, now,
                   session_cleared, unique_index, pending, hist, resp>>

\* the health endpoint beside signup, login and logout, which are sent while
\* the database answers
HealthNext ==
    \/ \E c \in Clients : health(c)
    \/ DbChanges
    \/ \E c \in Solo, form \in Accounts : client /\ db_up /\ signup_post(c, form, FALSE)
    \/ \E c \in Solo, form \in CredLoginForms : client /\ db_up /\ login_post(c, form)
    \/ \E c \in Solo : logout(c)
    \/ Tick

SpecHealth == InitAnyClient /\ [][HealthNext]_vars

\* signup with and without a failure in its try block, login, logout, a page
FaultsNext ==
    \/ \E c \in Solo, form \in Accounts, aj \in BOOLEAN : signup_post(c, form, aj)
    \/ \E c \in Solo, form \in Accounts, aj \in BOOLEAN, fault \in Faults :
          signup_post_failing(c, form, aj, fault)
    \/ \E c \in Solo, form \in CredLoginForms : login_post(c, form)
    \/ \E c \in Solo : logout(c)
    \/ \E c \in Solo : gait_analysis(c)
    \/ Tick

SpecFaults == Init /\ [][FaultsNext]_vars

\* records created through the API, listed by the API and by the dashboard
DashboardNext ==
    \/ \E c \in Solo, form \in Roster : signup_post(c, form, FALSE)
    \/ \E c \in Solo : logout(c)
    \/ \E c \in Solo, j \in BOOLEAN : api_actions_post(c, TRUE, EmptyDict, j)
    \/ \E c \in Solo, j \in BOOLEAN : api_analyses_post(c, TRUE, EmptyDict, j)
    \/ \E c \in Solo : api_actions_get(c, TRUE, EmptyDict, <<>>)
    \/ \E c \in Solo : api_analyses_get(c, TRUE, EmptyDict, <<>>)
    \/ \E c \in Solo : dashboard(c)
    \/ Tick

SpecDashboard == Init /\ [][DashboardNext]_vars

\* the token gate with every combination of cookie and Authorization header
TokenNext ==
    \/ \E c \in Solo, form \in Roster : signup_post(c, form, FALSE)
    \/ \E c \in Solo : logout(c)
    \/ \E c \in Solo, aj \in BOOLEAN, h \in Headers : api_get_user(c, aj, h)
    \/ \E c \in Solo : CopyToken(c)
    \/ \E c \in Solo : Tamper(c)
    \/ \E c \in Solo : BlankCookie(c)
    \/ Tick

SpecToken == Init /\ [][TokenNext]_vars

\* signup, logout and login of one client
CredsNext ==
    \/ \E c \in Solo, form \in Accounts : signup_post(c, form, FALSE)
    \/ \E c \in Solo : logout(c)
    \/ \E c \in Solo : login_get(c)
    \/ \E c \in Solo, form \in CredLoginForms : login_post(c, form)
    \/ Tick

SpecCreds == Init /\ [][CredsNext]_vars

(***************************************************************************)
(* Properties                                                               *)
(***************************************************************************)
SessionPages == {"gait_analysis", "dashboard", "settings"}

\* a request to one of the pages behind login_required
SessionPageRequest(c) == gait_analysis(c) \/ dashboard(c) \/ settings(c)

\* turned away to the login page, the view function not run
Rejected(r) == r.status = 302 /\ r.location = url_for("login") /\ ~r.handler

\* the token validates, now, to the user the session of c names
TokenOfSessionUser(token, s, t) ==
    /\ jwt_decode(token, JWT_SECRET_KEY, t) /= <<>>
    /\ jwt_decode(token, JWT_SECRET_KEY, t)[1].user_id = s["user_id"]

\* C2: after GET /logout, every request of that client to a page behind
\* login_required is redirected to the login page and the page's handler does not
\* run, for as long as the client has not completed a new login or signup.
C2_LogoutThenRedirect ==
    \A c \in Clients :
        (hist[c] = "logged_out" /\ resp.client = c /\ resp.route \in SessionPages)
            => Rejected(resp.r)

C2_Witness ==
    /\ hist["c1"] = "logged_out"
    /\ resp.client = "c1" /\ resp.route = "dashboard"
    /\ Rejected(resp.r)
    /\ Len(users) > 0

\* C5: a signup POST whose email or username is that of a stored user leaves the
\* user store unchanged, writes no user_id or username into the session, sets no
\* token cookie, and (the client not being logged in) re-renders the signup form.
C5_DuplicateSignupRejected ==
    [][\A c \in Clients :
         (resp'.client = c /\ resp'.route = "signup" /\ resp'.method = "POST")
         => \A form \in {resp'.form} :
         (/\ \E i \in 1..Len(users) :
                users[i].email = form.email \/ users[i].username = form.username
          /\ \E aj \in BOOLEAN : signup_post(c, form, aj))
         => /\ users' = users
            /\ resp'.r.set_cookie = <<>>
            /\ cookie' = cookie
            /\ \A k \in {"user_id", "username"} :
                  k \in DOMAIN session'[c]
                      => k \in DOMAIN session[c] /\ session'[c][k] = session[c][k]
            /\ "user_id" \notin DOMAIN clear_session_on_start(c)
                  => /\ resp'.r.status = 200
                     /\ resp'.r.template = "signup.html"]_vars

C5_Witness ==
    /\ resp.route = "signup" /\ resp.method = "POST"
    /\ resp.r.message = "Email already registered"
    /\ Len(users) = 1

C8_NoHandlerWithoutValidToken ==
    [][\A c \in Clients :
         (/\ resp'.client = c /\ resp'.route \in SessionPages
          /\ SessionPageRequest(c)
          /\ ~ (/\ "token" \in DOMAIN cookie[c]
                /\ jwt_decode(cookie[c]["token"], JWT_SECRET_KEY, now) /= <<>>))
         => ~resp'.r.handler]_vars

\* C9: the first request to a page behind login_required that a client sends
\* after a restart, its session having been logged in before the restart, is
\* redirected to the login page.
C9_RestartInvalidatesSessions ==
    [][\A c \in Clients :
         (/\ hist[c] = "stale"
          /\ resp'.client = c /\ resp'.route \in SessionPages
          /\ SessionPageRequest(c))
         => Rejected(resp'.r)]_vars

TokenEndpoints == {"api_get_user", "api_actions", "api_analyses"}

\* a request of client c to one of the token-gated endpoints
TokenEndpointRequest(c, aj, h) ==
    \/ /\ resp'.route = "api_get_user"
       /\ api_get_user(c, aj, h)
    \/ /\ resp'.route = "api_actions" /\ resp'.method = "GET"
       /\ \/ \E n \in Limits : api_actions_get(c, aj, h, <<n>>)
          \/ api_actions_get(c, aj, h, <<>>)
    \/ /\ resp'.route = "api_actions" /\ resp'.method = "POST"
       /\ \E j \in BOOLEAN : api_actions_post(c, aj, h, j)
    \/ /\ resp'.route = "api_analyses" /\ resp'.method = "GET"
       /\ \/ \E n \in Limits : api_analyses_get(c, aj, h, <<n>>)
          \/ api_analyses_get(c, aj, h, <<>>)
    \/ /\ resp'.route = "api_analyses" /\ resp'.method = "POST"
       /\ \E j \in BOOLEAN : api_analyses_post(c, aj, h, j)

\* a GET of client c to a token-gated endpoint with the default limit
TokenGetRequest(c, aj, h) ==
    \/ /\ resp'.route = "api_get_user"
       /\ api_get_user(c, aj, h)
    \/ /\ resp'.route = "api_actions"
       /\ api_actions_get(c, aj, h, <<>>)
    \/ /\ resp'.route = "api_analyses"
       /\ api_analyses_get(c, aj, h, <<>>)

\* the token request_token picks from c's cookie jar and the headers h
SentToken(c, h) == request_token(ApiReq(c, "api_get_user", "GET", FALSE, h, FALSE, <<>>))

\* C1: a request to a token-gated endpoint that carries neither a token cookie
\* nor an Authorization header is answered 401 when it accepts JSON and with a
\* redirect to the login page otherwise; the handler does not run and the
\* stored users, actions and analyses stay as they were
C1_MissingTokenRejected ==
    [][\A c \in Clients :
         (/\ resp'.client = c /\ resp'.route \in TokenEndpoints
          /\ "token" \notin DOMAIN cookie[c])
         => \A aj \in BOOLEAN :
              TokenEndpointRequest(c, aj, EmptyDict)
              => /\ ~resp'.r.handler
                 /\ resp'.r.user = <<>>
                 /\ resp'.r.body = <<>>
                 /\ IF aj
                    THEN resp'.r.status = 401 /\ resp'.r.message = "Token is missing!"
                    ELSE resp'.r.status = 302 /\ resp'.r.location = url_for("login")
                 /\ users' = users /\ actions' = actions /\ analyses' = analyses]_vars

C1_Witness ==
    /\ resp.route = "api_actions" /\ resp.method = "POST"
    /\ resp.r.status = 401 /\ resp.r.message = "Token is missing!"
    /\ "user_id" \in DOMAIN session[resp.client]
    /\ "token" \notin DOMAIN cookie[resp.client]
    /\ Len(users) > 0

\* a token just set by a successful login or signup validates, at the time of
\* its issue, to the identifier of the user who logged in, and resolves to them
IssuedTokenValidates ==
    (/\ resp.r.set_cookie /= <<>>
     /\ resp.r.set_cookie[1] /= EmptyToken
     /\ resp.route \in {"login", "signup"})
    => LET token == resp.r.set_cookie[1]
           u == find_one(users, "email", resp.form.email)
           data == jwt_decode(token, JWT_SECRET_KEY, token.iat)
       IN  /\ u /= <<>>
           /\ data /= <<>>
           /\ data[1].user_id = Str(u[1]._id)
           /\ find_one(users, "_id", ObjectId(data[1].user_id)) = u
           /\ token.exp = token.iat + JWT_ACCESS_TOKEN_EXPIRES

\* C3: the token issued for user u validates right after its issue to u's
\* identifier, and a request whose token has reached its expiry time is
\* rejected without running the handler
C3_TokenRoundTripAndExpiry ==
    [][/\ IssuedTokenValidates'
       /\ \A c \in Clients :
            (resp'.client = c /\ resp'.route \in TokenEndpoints)
            => \A aj \in BOOLEAN, h \in Headers :
                 (/\ SentToken(c, h) /= <<>>
                  /\ now >= SentToken(c, h)[1].exp
                  /\ TokenGetRequest(c, aj, h))
                 => /\ ~resp'.r.handler
                    /\ resp'.r.status = IF aj THEN 401 ELSE 302]_vars

C3_Witness ==
    /\ resp.route = "api_get_user" /\ resp.r.status = 401
    /\ resp.r.message = "Token is invalid!"
    /\ "token" \in DOMAIN cookie[resp.client]
    /\ cookie[resp.client]["token"].key = JWT_SECRET_KEY
    /\ cookie[resp.client]["token"].exp = now
    /\ \E i \in 1..Len(users) :
          Str(users[i]._id) = cookie[resp.client]["token"].user_id

\* C4: no two stored users share an email or a username, whatever the order in
\* which the lookups and inserts of concurrent signups run
C4_UniqueEmailAndUsername ==
    \A i, j \in 1..Len(users) :
        i /= j => /\ users[i].email /= users[j].email
                  /\ users[i].username /= users[j].username

\* C6: the list GET /api/actions or GET /api/analyses returns to a caller
\* authenticated as A holds only stored records whose user_id is A's _id
C6_OnlyOwnRecords ==
    (/\ resp.route \in {"api_actions", "api_analyses"}
     /\ resp.method = "GET"
     /\ resp.r.handler)
    => LET coll == IF resp.route = "api_actions" THEN actions ELSE analyses
       IN  /\ resp.r.user /= <<>>
           /\ \A i \in 1..Len(resp.r.body) :
                 /\ resp.r.body[i].user_id = Str(resp.r.user[1]._id)
                 /\ \E k \in 1..Len(coll) :
                       /\ resp.r.body[i] = stringified(coll[k])
                       /\ coll[k].user_id = resp.r.user[1]._id

C6_Witness ==
    /\ resp.route = "api_actions" /\ resp.method = "GET" /\ resp.r.handler
    /\ Len(resp.r.body) = 1
    /\ Len(actions) = 2
    /\ \E k \in 1..Len(actions) : actions[k].user_id /= resp.r.user[1]._id

\* C10: a token signed by the server is accepted at every time before its
\* expiry, as the user it names: neither a logout nor a later login of that
\* user makes the server refuse it
C10_OnlyExpiryInvalidates ==
    [][\A c \in Clients :
         (resp'.client = c /\ resp'.route \in TokenEndpoints)
         => \A aj \in BOOLEAN, h \in Headers :
              (/\ SentToken(c, h) /= <<>>
               /\ SentToken(c, h)[1].key = JWT_SECRET_KEY
               /\ now < SentToken(c, h)[1].exp
               /\ TokenGetRequest(c, aj, h))
              => /\ resp'.r.handler
                 /\ resp'.r.status = 200
                 /\ resp'.r.user =
                       find_one(users, "_id", ObjectId(SentToken(c, h)[1].user_id))
                 /\ resp'.r.user /= <<>>]_vars

C10_Witness ==
    /\ hist[resp.client] = "logged_out"
    /\ "token" \notin DOMAIN cookie[resp.client]
    /\ resp.route = "api_actions" /\ resp.r.handler
    /\ leaked /= <<>>
    /\ resp.r.user /= <<>>
    /\ Str(resp.r.user[1]._id) = leaked[1].user_id
    /\ resp.r.user[1].last_login > leaked[1].iat

\* C11: the hash stored for an account differs from the password it was
\* created with, and a login of an anonymous client with the account's email
\* and that password writes the account's user_id and username into the
\* session and redirects
C11_HashedAndLoginSucceeds ==
    [][/\ \A i \in 1..Len(users') : users'[i].password /= PlainOf(users'[i].email)
       /\ \A c \in Clients :
            (/\ resp'.client = c /\ resp'.route = "login" /\ resp'.method = "POST"
             /\ "user_id" \notin DOMAIN clear_session_on_start(c)
             /\ \E i \in 1..Len(users) : users[i].email = resp'.form.email
             /\ resp'.form.password = PlainOf(resp'.form.email)
             /\ login_post(c, resp'.form))
            => /\ resp'.r.status = 302
               /\ resp'.r.template = ""
               /\ {"user_id", "username"} \subseteq DOMAIN session'[c]
               /\ \E i \in 1..Len(users) :
                     /\ users[i].email = resp'.form.email
                     /\ session'[c]["user_id"] = Str(users[i]._id)
                     /\ session'[c]["username"] = users[i].username]_vars

C11_Witness ==
    /\ resp.route = "login" /\ resp.method = "POST" /\ resp.r.status = 302
    /\ resp.form.email = "b@x.com" /\ resp.form.password = "hunter22"
    /\ "username" \in DOMAIN session[resp.client]
    /\ session[resp.client]["username"] = "bob"
    /\ Len(users) = 2

\* C12: a signup POST that fails validation leaves the user store as it was,
\* writes no user_id or username into the session and sets no token cookie
C12_InvalidSignupNoChange ==
    [][\A c \in Clients :
         (/\ resp'.client = c /\ resp'.route = "signup" /\ resp'.method = "POST"
          /\ \/ "" \in {resp'.form.username, resp'.form.email,
                        resp'.form.password, resp'.form.confirm_password}
             \/ resp'.form.password /= resp'.form.confirm_password
             \/ Len(resp'.form.password) < MinPasswordLen
          /\ \E aj \in BOOLEAN : signup_post(c, resp'.form, aj))
         => /\ users' = users
            /\ actions' = actions /\ analyses' = analyses
            /\ resp'.r.set_cookie = <<>>
            /\ cookie' = cookie
            /\ \A k \in {"user_id", "username"} :
                  k \in DOMAIN session'[c]
                      => k \in DOMAIN session[c] /\ session'[c][k] = session[c][k]
            /\ "user_id" \notin DOMAIN clear_session_on_start(c)
                  => /\ resp'.r.status = 200
                     /\ resp'.r.template = "signup.html"
                     /\ resp'.r.message /= ""]_vars

C12_Witness ==
    /\ resp.route = "signup" /\ resp.method = "POST"
    /\ resp.form.password = "short" /\ resp.form.confirm_password = "short"
    /\ resp.r.message = "Password must be at least 6 characters"
    /\ Len(users) = 1

\* C13: a login POST with an unknown email or with a password other than the
\* account's writes no user_id or username into the session, sets no token
\* cookie and changes no stored user; a user's last_login changes only in a
\* login POST with that user's email and password
C13_FailedLoginNoChange ==
    [][/\ \A c \in Clients :
            (/\ resp'.client = c /\ resp'.route = "login" /\ resp'.method = "POST"
             /\ \/ \A i \in 1..Len(users) : users[i].email /= resp'.form.email
                \/ resp'.form.password /= PlainOf(resp'.form.email)
             /\ login_post(c, resp'.form))
            => /\ users' = users
               /\ resp'.r.set_cookie = <<>>
               /\ cookie' = cookie
               /\ \A k \in {"user_id", "username"} :
                     k \in DOMAIN session'[c]
                         => k \in DOMAIN session[c] /\ session'[c][k] = session[c][k]
       /\ \A i \in 1..Len(users) :
            users'[i].last_login /= users[i].last_login
            => /\ resp'.route = "login" /\ resp'.method = "POST"
               /\ resp'.form.email = users[i].email
               /\ resp'.form.password = PlainOf(users[i].email)
               /\ users'[i].last_login = now]_vars

C13_Witness ==
    /\ resp.route = "login" /\ resp.method = "POST"
    /\ resp.r.message = "Invalid email or password"
    /\ resp.form.email = "a@x.com" /\ resp.form.password = "hunter22"
    /\ \E i \in 1..Len(users) : users[i].email = "a@x.com"
    /\ "user_id" \notin DOMAIN session[resp.client]
    /\ now > 0

\* the token the request of c with headers h presents: the cookie's when the
\* cookie has a non-empty one, else the Bearer header's, else none
PresentedToken(c, h) ==
    IF "token" \in DOMAIN cookie[c] /\ cookie[c]["token"] /= EmptyToken
    THEN <<cookie[c]["token"]>>
    ELSE IF h /= EmptyDict THEN <<h["Authorization"].token>>
    ELSE <<>>

\* the stored users whose identifier is the token's user_id claim
UsersNamedBy(token) == {i \in 1..Len(users) : Str(users[i]._id) = token.user_id}

\* C14: the token gate uses the cookie's token when the cookie has one and the
\* Bearer header's only otherwise; a request whose token verifies runs the
\* handler with exactly the stored user the token names, and a request whose
\* token does not verify, or that has none, does not run the handler
C14_CookieFirstThenBearer ==
    [][\A c \in Clients :
         (resp'.client = c /\ resp'.route = "api_get_user")
         => \A aj \in BOOLEAN, h \in Headers :
              api_get_user(c, aj, h)
              => LET t == PresentedToken(c, h)
                 IN  IF /\ t /= <<>>
                        /\ t[1].key = JWT_SECRET_KEY
                        /\ now < t[1].exp
                        /\ UsersNamedBy(t[1]) /= {}
                     THEN /\ resp'.r.handler
                          /\ resp'.r.status = 200
                          /\ \E i \in UsersNamedBy(t[1]) : resp'.r.user = <<users[i]>>
                     ELSE /\ ~resp'.r.handler
                          /\ resp'.r.user = <<>>
                          /\ resp'.r.status = IF aj THEN 401 ELSE 302]_vars

C14_Witness ==
    /\ resp.route = "api_get_user" /\ resp.r.handler
    /\ "token" \notin DOMAIN cookie[resp.client]
    /\ "user_id" \notin DOMAIN session[resp.client]
    /\ leaked /= <<>>
    /\ resp.r.user /= <<>>
    /\ Str(resp.r.user[1]._id) = leaked[1].user_id
    /\ Len(users) = 2

\* the positions in actions of the records of the user with this _id
ActionsOf(uid) == {k \in 1..Len(actions) : actions[k].user_id = uid}

\* the record the user inserted last
LastActionOf(uid) == actions[CHOOSE k \in ActionsOf(uid) : \A j \in ActionsOf(uid) : j <= k]

\* C15: GET /api/actions with limit n >= 1 (or the default) returns at most n
\* records, all of them the caller's, newest first, and none of the caller's
\* records left out is newer than one returned; with limit=1 the list is the
\* record the caller inserted last
C15_NewestFirst ==
    [][\A c \in Clients :
         (/\ resp'.client = c /\ resp'.route = "api_actions" /\ resp'.method = "GET"
          /\ resp'.r.handler)
         => \A aj \in BOOLEAN, limit \in {<<1>>, <<>>} :
              api_actions_get(c, aj, EmptyDict, limit)
              => LET n == IF limit = <<>> THEN DefaultActionsLimit ELSE limit[1]
                     uid == resp'.r.user[1]._id
                     body == resp'.r.body
                 IN  /\ Len(body) <= n
                     /\ Len(body) = n \/ Len(body) = Cardinality(ActionsOf(uid))
                     /\ \A i \in 1..Len(body) :
                           \E k \in ActionsOf(uid) : body[i] = stringified(actions[k])
                     /\ \A i, j \in 1..Len(body) :
                           i < j => /\ body[i] /= body[j]
                                    /\ body[i].timestamp >= body[j].timestamp
                     /\ \A k \in ActionsOf(uid) :
                           (\A i \in 1..Len(body) : body[i] /= stringified(actions[k]))
                           => \A i \in 1..Len(body) :
                                 body[i].timestamp >= actions[k].timestamp
                     /\ (n = 1 /\ ActionsOf(uid) /= {})
                           => body = <<stringified(LastActionOf(uid))>>]_vars

\* C16: GET /health answers 200 when the database is reachable and 500 when it
\* is not, also when startup left no database client
C16_HealthStatus ==
    [][\A c \in Clients :
         (resp'.client = c /\ resp'.route = "health" /\ health(c))
         => resp'.r.status = IF client /\ db_up THEN 200 ELSE 500]_vars

\* a step in which the login POST of client c succeeds
LoginSucceeds(c) ==
    /\ resp'.client = c /\ resp'.route = "login" /\ resp'.method = "POST"
    /\ resp'.r.message = "Login successful!"
    /\ login_post(c, resp'.form)

C18_ExactlyOneClear ==
    [][\A c \in Clients : clear_session_on_start_clear(c) => ~session_cleared]_vars

\* C18, amended: a request clears its session in the hook exactly when its
\* test of app.session_cleared ran before any request set it; once the flag is
\* set, no request that arrives afterwards is cleared, and it keeps its session
C18_NoClearAfterFlag ==
    [][\A c \in Clients :
         /\ clear_session_on_start_test(c)
            => (pending'[c][1].at = "clear") = ~session_cleared
         /\ (session_cleared /\ (pending[c] = <<>> \/ pending[c][1].at /= "clear"))
            => /\ pending'[c] = <<>> \/ pending'[c][1].at /= "clear"
               /\ (pending[c] /= <<>> /\ pending'[c] /= <<>>)
                     => pending'[c][1].session = pending[c][1].session
               /\ gait_analysis_view(c) => session'[c] = pending[c][1].session
                                           \/ ~login_required(pending[c][1].session)]_vars

C18_Witness ==
    /\ session_cleared
    /\ \E c, d \in Clients :
          /\ c /= d
          /\ pending[c] /= <<>> /\ pending[c][1].at = "view"
          /\ "user_id" \in DOMAIN pending[c][1].session
          /\ pending[d] /= <<>> /\ pending[d][1].at = "clear"

\* C19: a signup POST that ends with the 'Error creating account' message has
\* inserted no user and leaves the session without user_id
C19_FailureLeavesNothing ==
    [][\A c \in Clients :
         (/\ resp'.client = c /\ resp'.route = "signup" /\ resp'.method = "POST"
          /\ resp'.r.message = "Error creating account. Please try again."
          /\ \E aj \in BOOLEAN, fault \in Faults :
                signup_post_failing(c, resp'.form, aj, fault))
         => /\ users' = users
            /\ "user_id" \notin DOMAIN session'[c]]_vars

\* C20: the action list GET /dashboard shows to a logged-in user is a list GET
\* /api/actions?limit=10 may return for that user, and the analyses list one
\* GET /api/analyses?limit=5 may return
C20_DashboardShowsApiRecords ==
    [][\A c \in Clients :
         (/\ resp'.client = c /\ resp'.route = "dashboard"
          /\ resp'.r.template = "dashboard.html"
          /\ dashboard(c))
         => /\ resp'.r.user /= <<>>
            /\ \E r \in records_get(actions, resp'.r.user[1], DefaultActionsLimit) :
                  resp'.r.body = r.body
            /\ \E r \in records_get(analyses, resp'.r.user[1], DefaultAnalysesLimit) :
                  resp'.r.body2 = r.body]_vars

\* C21: a request to /login or /signup, GET or POST with any form, that reaches
\* its handler with user_id in the session is answered by a redirect to the
\* dashboard and creates no user, sets no token cookie and leaves the session
\* as the handler found it; and whenever a step puts a user_id into a client's
\* session that was not there before the step, the session its handler found
\* held no user_id, so no write replaces one user by another
C21_NoDirectSwitch ==
    [][\A c \in Clients :
         LET s == clear_session_on_start(c)
         IN  /\ (/\ user_id_in_session(s)
                 /\ resp'.client = c /\ resp'.route \in {"login", "signup"}
                 /\ \/ resp'.route = "login" /\ resp'.method = "GET" /\ login_get(c)
                    \/ resp'.route = "login" /\ resp'.method = "POST"
                         /\ login_post(c, resp'.form)
                    \/ resp'.route = "signup" /\ resp'.method = "GET" /\ signup_get(c)
                    \/ resp'.route = "signup" /\ resp'.method = "POST"
                         /\ \E aj \in BOOLEAN : signup_post(c, resp'.form, aj))
                => /\ resp'.r.status = 302
                   /\ resp'.r.location = url_for("dashboard")
                   /\ resp'.r.set_cookie = <<>>
                   /\ users' = users
                   /\ cookie' = cookie
                   /\ session'[c] = s
             /\ (/\ "user_id" \in DOMAIN session'[c]
                 /\ \/ "user_id" \notin DOMAIN session[c]
                    \/ session'[c]["user_id"] /= session[c]["user_id"])
                => /\ ~user_id_in_session(s)
                   /\ session_cleared => "user_id" \notin DOMAIN session[c]]_vars

\* bob is logged in and a login POST with alice's email and password was
\* answered by the redirect without a token cookie
C21_Witness ==
    /\ resp.route = "login" /\ resp.method = "POST"
    /\ resp.r.status = 302 /\ resp.r.set_cookie = <<>>
    /\ "user_id" \in DOMAIN session[resp.client]
    /\ \E i \in 1..Len(users) :
          /\ users[i].email = resp.form.email
          /\ check_password_hash(users[i].password, resp.form.password)
          /\ session[resp.client]["user_id"] /= Str(users[i]._id)

(***************************************************************************)
(* Redirect chains: one browser that sends any request, and that may follow *)
(* each redirect it is given, while the clock runs, the token cookie is     *)
(* replaced or dropped, the process restarts and accounts disappear         *)
(***************************************************************************)
\* A user document is removed from users_collection outside the application
\* (the application itself never deletes one); dashboard, settings and
\* token_required then find None. The slot stays in the sequence, matching
\* no query, so that the documents inserted later get ObjectIds of their own.
UserGone(i) ==
    /\ i \in 1..Len(users)
    /\ "oid" \in DOMAIN users[i]._id
    /\ users' = [users EXCEPT ![i] = [@ EXCEPT !._id = [deleted |-> i],
                                               !.username = "", !.email = "",
                                               !.password = ""]]
    /\ UNCHANGED <<client, db_up, actions, analyses, session, cookie, leaked, now,
                   session_cleared, unique_index, pending, hist, resp>>

RedirectsNext ==
    \/ \E c \in Solo : index(c)
    \/ \E c \in Solo : login_get(c)
    \/ \E c \in Solo, form \in CredLoginForms : login_post(c, form)
    \/ \E c \in Solo : signup_get(c)
    \/ \E c \in Solo, form \in Accounts : signup_post(c, form, FALSE)
    \/ \E c \in Solo : logout(c)
    \/ \E c \in Solo : dashboard(c)
    \/ \E c \in Solo : settings(c)
    \/ \E c \in Solo, aj \in BOOLEAN : api_get_user(c, aj, EmptyDict)
    \/ \E c \in Solo : Tamper(c)
    \/ \E c \in Solo : CookieExpires(c)
    \/ \E i \in 1..MaxUsers : UserGone(i)
    \/ Tick
    \/ Restart

SpecRedirects == Init /\ [][RedirectsNext]_vars

\* the last response is a redirect
Redirected == resp.r.status = 302

\* C22: a client that follows the redirects it is given gets a response that
\* is not a redirect after at most four of them, whatever its session, its
\* token cookie and the user store are when it starts and however they change
\* on the way: no chain is longer, and the fourth follow never ends in a
\* redirect, so no chain returns to /, /login or /dashboard for ever
C22_RedirectChainsEnd ==
    /\ resp.hops <= 4
    /\ resp.hops = 4 => ~Redirected

\* the longest chain: four redirects followed, the last one to a page
C22_Witness ==
    /\ resp.hops = 4
    /\ resp.r.status = 200
    /\ resp.route = "login"

====
